---- MODULE Spec2Model ----
(***************************************************************************)
(* Hotel booking backend: the RoomType and Booking collections and the     *)
(* request handlers of controllers/booking.ts, controllers/search.ts and   *)
(* controllers/room-type.ts.  Every handler is split at its awaits: each   *)
(* action below is one call on the store together with the synchronous     *)
(* code that runs up to the next await (or up to the response).            *)
(*                                                                         *)
(* Strings are sequences of one-character strings.  Instants are integers  *)
(* counted in ticks, TicksPerDay ticks to a calendar day; a date-only      *)
(* string parses to a multiple of TicksPerDay (UTC midnight).              *)
(***************************************************************************)
EXTENDS Integers, Sequences, FiniteSets, TLC

\* ------------------------------------------------------------------ bounds
MaxRoomTypes == 2
MaxBookings == 2
NumClients == 2
MaxDay == 4

\* ------------------------------------------------------- program constants
TicksPerDay == 2
MinPhoneLen == 10

VARIABLES roomTypes, bookings, today, pc, req, loc, resp

vars == <<roomTypes, bookings, today, pc, req, loc, resp>>

Procs == 1..NumClients
RoomIds == 1..MaxRoomTypes

\* ----------------------------------------------------------------- strings
Space == " "

RECURSIVE TrimLeft(_)
TrimLeft(s) == IF s # <<>> /\ Head(s) = Space THEN TrimLeft(Tail(s)) ELSE s

RECURSIVE TrimRight(_)
TrimRight(s) ==
  IF s # <<>> /\ s[Len(s)] = Space THEN TrimRight(SubSeq(s, 1, Len(s) - 1)) ELSE s

\* String.prototype.trim
Trim(s) == TrimRight(TrimLeft(s))

PhoneChars == {"0", "1", "2", "3", "4", "5", "6", "7", "8", "9", " ", "-", "(", ")"}

\* /^\+?[\d\s\-\(\)]{10,}$/.test(v)
PhoneValid(v) ==
  LET body == IF v # <<>> /\ Head(v) = "+" THEN Tail(v) ELSE v
  IN  Len(body) >= MinPhoneLen /\ \A i \in 1..Len(body) : body[i] \in PhoneChars

\* ------------------------------------------------------------------- dates
\* A date string of a request: s = "empty" (the empty string), "bad" (no
\* date can be read from it) or "date" (it reads as the instant t).
NaN == -1
EmptyStr == [s |-> "empty", t |-> 0]
BadDateStr == [s |-> "bad", t |-> 0]
DateStr(t) == [s |-> "date", t |-> t]
YMD(day) == DateStr(day * TicksPerDay)

\* new Date(string).getTime()
ParseDate(str) == IF str.s = "date" THEN str.t ELSE NaN
IsNaN(t) == t = NaN

\* A count of nights that drops a started day.
NightsFloor(checkIn, checkOut) == (checkOut - checkIn) \div TicksPerDay

\* Math.ceil((checkOut - checkIn) / (1000 * 60 * 60 * 24)), for checkOut > checkIn
Nights(checkIn, checkOut) == ((checkOut - checkIn) + TicksPerDay - 1) \div TicksPerDay

\* --------------------------------------------------------------------- ids
\* Identifiers are integers: 0 is the empty string, BadId a string that is
\* no ObjectId, every positive integer a well-formed ObjectId.
MissingId == 0
BadId == -1
ObjectIdIsValid(id) == id > 0

\* ---------------------------------------------------------------- RoomType
NoRoomType ==
  [exists |-> FALSE, name |-> <<>>, maxOccupancy |-> 0, pricePerNight |-> 0,
   totalQuantity |-> 0, isActive |-> FALSE]

RoomType(name, maxOccupancy, pricePerNight, totalQuantity) ==
  [exists |-> TRUE, name |-> name, maxOccupancy |-> maxOccupancy,
   pricePerNight |-> pricePerNight, totalQuantity |-> totalQuantity, isActive |-> TRUE]

\* RoomType.findById(id)
FindRoomTypeById(rts, id) == IF id \in DOMAIN rts THEN rts[id] ELSE NoRoomType

\* ----------------------------------------------------------------- Booking
NoBooking ==
  [roomTypeId |-> 0, roomTypeName |-> <<>>, customerName |-> <<>>, customerPhone |-> <<>>,
   checkInDate |-> 0, checkOutDate |-> 0, numberOfGuests |-> 0, pricePerNight |-> 0,
   totalPrice |-> 0, status |-> "none"]

StatusEnum == {"confirmed", "cancelled"}

\* Booking.findById(id)
BookingExists(bks, id) == id \in DOMAIN bks
FindBookingById(bks, id) == IF BookingExists(bks, id) THEN bks[id] ELSE NoBooking

\* The filter of a query, matched against one stored booking.
Cmp(op, x, v) ==
  CASE op = "$lte" -> x <= v
    [] op = "$gte" -> x >= v
    [] op = "$lt" -> x < v
    [] op = "$gt" -> x > v

Matches(doc, q) ==
  /\ doc.roomTypeId = q.roomTypeId
  /\ doc.status = q.status
  /\ \E i \in DOMAIN q.or :
       /\ Cmp(q.or[i].checkInDate.op, doc.checkInDate, q.or[i].checkInDate.v)
       /\ Cmp(q.or[i].checkOutDate.op, doc.checkOutDate, q.or[i].checkOutDate.v)

\* Booking.countDocuments(q)
CountDocuments(bks, q) == Cardinality({i \in DOMAIN bks : Matches(bks[i], q)})

\* --------------------------------------------------------------- responses
\* An answer sent as a server error whatever the handler did before it.
RespServerError(status, kind) ==
  [status |-> 500, kind |-> kind, total |-> 0, booked |-> 0, avail |-> 0,
   isAvailable |-> FALSE, id |-> 0, data |-> <<>>]

Resp(status, kind) ==
  [status |-> status, kind |-> kind, total |-> 0, booked |-> 0, avail |-> 0,
   isAvailable |-> FALSE, id |-> 0, data |-> <<>>]

NoResp == Resp(0, "none")
NoReq == [op |-> "none"]
NoLoc == [rt |-> NoRoomType, doc |-> NoBooking, rooms |-> <<>>, entries |-> <<>>]

\* ------------------------------------------------ the state of a request
Free(p) == pc[p] \in {"idle", "done"}

\* The handler of p starts on request r and goes on to its next store call.
Goto(p, r, label, l) ==
  /\ pc' = [pc EXCEPT ![p] = label]
  /\ req' = [req EXCEPT ![p] = r]
  /\ loc' = [loc EXCEPT ![p] = l]
  /\ resp' = [resp EXCEPT ![p] = NoResp]

\* A handler that returns without sending an answer.
SilentReturn(p, r, answer) ==
  /\ pc' = [pc EXCEPT ![p] = "done"]
  /\ req' = [req EXCEPT ![p] = r]
  /\ loc' = [loc EXCEPT ![p] = NoLoc]
  /\ resp' = [resp EXCEPT ![p] = NoResp]

\* res.status(..).json(..): the handler of p answers request r and returns.
Respond(p, r, answer) ==
  /\ pc' = [pc EXCEPT ![p] = "done"]
  /\ req' = [req EXCEPT ![p] = r]
  /\ loc' = [loc EXCEPT ![p] = NoLoc]
  /\ resp' = [resp EXCEPT ![p] = answer]

\* Requests about to insert a booking (the model stores at most MaxBookings
\* bookings: no further request passes its availability check once they
\* would fill the store).
Inserting == {p \in Procs : pc[p] = "cb_save"}

\* ---------------------------------------------------------- createBooking
\* The checks of the request body with the guest count checked before the dates.
ValidateCreateGuestsFirst(r, td) ==
  IF \/ r.roomTypeId = MissingId \/ r.customerName = <<>> \/ r.customerPhone = <<>>
     \/ r.checkInDate.s = "empty" \/ r.checkOutDate.s = "empty" \/ r.numberOfGuests = 0
  THEN "MissingField"
  ELSE IF ~ObjectIdIsValid(r.roomTypeId) THEN "InvalidId"
  ELSE IF r.numberOfGuests < 1 THEN "GuestCount"
  ELSE IF IsNaN(ParseDate(r.checkInDate)) \/ IsNaN(ParseDate(r.checkOutDate))
  THEN "InvalidDate"
  ELSE IF ParseDate(r.checkOutDate) <= ParseDate(r.checkInDate) THEN "DateOrder"
  ELSE IF ParseDate(r.checkInDate) < td THEN "PastDate"
  ELSE "ok"

\* The synchronous checks of the request body, in the order of the code.
ValidateCreate(r, td) ==
  IF \/ r.roomTypeId = MissingId \/ r.customerName = <<>> \/ r.customerPhone = <<>>
     \/ r.checkInDate.s = "empty" \/ r.checkOutDate.s = "empty" \/ r.numberOfGuests = 0
  THEN "MissingField"
  ELSE IF ~ObjectIdIsValid(r.roomTypeId) THEN "InvalidId"
  ELSE IF IsNaN(ParseDate(r.checkInDate)) \/ IsNaN(ParseDate(r.checkOutDate))
  THEN "InvalidDate"
  ELSE IF ParseDate(r.checkOutDate) <= ParseDate(r.checkInDate) THEN "DateOrder"
  ELSE IF ParseDate(r.checkInDate) < td THEN "PastDate"
  ELSE IF r.numberOfGuests < 1 THEN "GuestCount"
  ELSE "ok"

\* A capacity check that lets one guest too many through.
CapacityExceededByTwo(guests, rt) == guests > rt.maxOccupancy + 1

\* Line 99: numberOfGuests > roomType.maxOccupancy
CapacityExceeded(guests, rt) == guests > rt.maxOccupancy

\* An overlap query that leaves out a booking that ends or starts at the
\* very instant the asked stay starts or ends.
CreateOverlapQueryOpen(r) ==
  [roomTypeId |-> r.roomTypeId, status |-> "confirmed",
   or |-> << [checkInDate |-> [op |-> "$lt", v |-> ParseDate(r.checkOutDate)],
              checkOutDate |-> [op |-> "$gt", v |-> ParseDate(r.checkInDate)]] >>]

\* Lines 108-117: the filter of Booking.countDocuments
CreateOverlapQuery(r) ==
  [roomTypeId |-> r.roomTypeId, status |-> "confirmed",
   or |-> << [checkInDate |-> [op |-> "$lte", v |-> ParseDate(r.checkOutDate)],
              checkOutDate |-> [op |-> "$gte", v |-> ParseDate(r.checkInDate)]] >>]

AvailableRooms(rt, overlapping) == rt.totalQuantity - overlapping

\* An availability check that accepts a request when no unit is left.
NoAvailabilityStrict(availableRooms) == availableRooms < 0

\* Line 121: availableRooms <= 0
NoAvailability(availableRooms) == availableRooms <= 0

AvailabilityError(rt, overlapping) ==
  [Resp(409, "AvailabilityError") EXCEPT
     !.total = rt.totalQuantity, !.booked = overlapping, !.avail = 0]

TotalPrice(rt, checkIn, checkOut) == rt.pricePerNight * Nights(checkIn, checkOut)

NewBooking(r, rt) ==
  [roomTypeId |-> r.roomTypeId, roomTypeName |-> rt.name,
   customerName |-> Trim(r.customerName), customerPhone |-> Trim(r.customerPhone),
   checkInDate |-> ParseDate(r.checkInDate), checkOutDate |-> ParseDate(r.checkOutDate),
   numberOfGuests |-> r.numberOfGuests, pricePerNight |-> rt.pricePerNight,
   totalPrice |-> TotalPrice(rt, ParseDate(r.checkInDate), ParseDate(r.checkOutDate)),
   status |-> "confirmed"]

\* The schema's validators, run on a whole document by save().
SchemaValid(doc) ==
  /\ Trim(doc.roomTypeName) # <<>>
  /\ Trim(doc.customerName) # <<>>
  /\ Trim(doc.customerPhone) # <<>> /\ PhoneValid(Trim(doc.customerPhone))
  /\ doc.numberOfGuests >= 1
  /\ doc.pricePerNight >= 0
  /\ doc.totalPrice >= 0
  /\ doc.status \in StatusEnum

\* BookingSchema.pre('save')
PreSaveRejects(doc) == doc.checkOutDate <= doc.checkInDate

\* document.save(): validation, then the pre-save hook, then the write.
SaveOutcome(doc) ==
  IF ~SchemaValid(doc) THEN "ValidationError"
  ELSE IF PreSaveRejects(doc) THEN "SaveError"
  ELSE "ok"

\* Lines 26-178 run with no other request in between: the kind of answer.
CreateDecision(r, rts, bks, td) ==
  LET v == ValidateCreate(r, td)
      rt == FindRoomTypeById(rts, r.roomTypeId)
  IN  IF v # "ok" THEN v
      ELSE IF ~rt.exists THEN "NotFoundError"
      ELSE IF CapacityExceeded(r.numberOfGuests, rt) THEN "CapacityError"
      ELSE IF NoAvailability(AvailableRooms(rt, CountDocuments(bks, CreateOverlapQuery(r))))
      THEN "AvailabilityError"
      ELSE IF SaveOutcome(NewBooking(r, rt)) # "ok" THEN SaveOutcome(NewBooking(r, rt))
      ELSE "Created"

\* Lines 26-105: the body's checks, RoomType.findById, the capacity check.
CreateBookingFind(p, r) ==
  /\ Free(p)
  /\ UNCHANGED <<roomTypes, bookings, today>>
  /\ LET v == ValidateCreate(r, today)
         rt == FindRoomTypeById(roomTypes, r.roomTypeId)
     IN  IF v # "ok" THEN Respond(p, r, Resp(400, v))
         ELSE IF ~rt.exists THEN Respond(p, r, Resp(404, "NotFoundError"))
         ELSE IF CapacityExceeded(r.numberOfGuests, rt)
         THEN Respond(p, r, Resp(400, "CapacityError"))
         ELSE Goto(p, r, "cb_count", [NoLoc EXCEPT !.rt = rt])

\* Lines 107-132: Booking.countDocuments and the availability check.
CreateBookingCount(p) ==
  /\ pc[p] = "cb_count"
  /\ UNCHANGED <<roomTypes, bookings, today>>
  /\ LET overlapping == CountDocuments(bookings, CreateOverlapQuery(req[p]))
     IN  IF NoAvailability(AvailableRooms(loc[p].rt, overlapping))
         THEN Respond(p, req[p], AvailabilityError(loc[p].rt, overlapping))
         ELSE /\ Len(bookings) + Cardinality(Inserting) < MaxBookings
              /\ Goto(p, req[p], "cb_save", loc[p])

\* A save that also takes one unit off the booked room type.
RoomTypesDecremented(rts, doc) ==
  [id \in DOMAIN rts |->
     IF id = doc.roomTypeId THEN [rts[id] EXCEPT !.totalQuantity = @ - 1] ELSE rts[id]]

\* Lines 134-153: the room type read by findById is copied into the new
\* booking and never saved; booking.save() writes the bookings only.
RoomTypesOnSave(rts, doc) == rts

\* Lines 134-178 and the catch: booking.save() and the answer.
CreateBookingSave(p) ==
  /\ pc[p] = "cb_save"
  /\ UNCHANGED today
  /\ LET doc == NewBooking(req[p], loc[p].rt)
         out == SaveOutcome(doc)
     IN  IF out = "ok"
         THEN /\ bookings' = Append(bookings, doc)
              /\ roomTypes' = RoomTypesOnSave(roomTypes, doc)
              /\ Respond(p, req[p], [Resp(201, "Created") EXCEPT !.id = Len(bookings) + 1])
         ELSE /\ UNCHANGED <<roomTypes, bookings>>
              /\ Respond(p, req[p],
                          Resp(IF out = "ValidationError" THEN 400 ELSE 500, out))

\* ---------------------------------------------------------- cancelBooking
\* A status check that never finds a booking cancelled.
NeverCancelled(doc) == FALSE

\* Line 430: booking.status === 'cancelled'
AlreadyCancelled(doc) == doc.status = "cancelled"

\* Lines 410-436: the id check, Booking.findById, the status check.
CancelBookingFind(p, r) ==
  /\ Free(p)
  /\ UNCHANGED <<roomTypes, bookings, today>>
  /\ IF ~ObjectIdIsValid(r.id) THEN Respond(p, r, Resp(400, "InvalidId"))
     ELSE IF ~BookingExists(bookings, r.id) THEN Respond(p, r, Resp(404, "NotFoundError"))
     ELSE IF AlreadyCancelled(FindBookingById(bookings, r.id))
     THEN Respond(p, r, Resp(400, "AlreadyCancelledError"))
     ELSE Goto(p, r, "cn_save", [NoLoc EXCEPT !.doc = FindBookingById(bookings, r.id)])

\* An assignment that leaves the status of the document as it was.
StatusKept(doc) == doc

\* booking.status = 'cancelled' on the document read by findById
Cancelled(doc) == [doc EXCEPT !.status = "cancelled"]

\* Lines 438-453: booking.save() writes the modified path, status.
CancelBookingSave(p) ==
  /\ pc[p] = "cn_save"
  /\ UNCHANGED <<roomTypes, today>>
  /\ LET out == SaveOutcome(Cancelled(loc[p].doc))
     IN  IF out = "ok"
         THEN /\ bookings' = [bookings EXCEPT ![req[p].id].status = Cancelled(loc[p].doc).status]
              /\ Respond(p, req[p], [Resp(200, "Cancelled") EXCEPT !.id = req[p].id])
         ELSE /\ UNCHANGED bookings
              /\ Respond(p, req[p], Resp(500, out))

\* ---------------------------------------------------------- updateBooking
\* The request body is a record of the fields it holds: f \in DOMAIN body.
Has(body, f) == f \in DOMAIN body

DatePaths == {"checkInDate", "checkOutDate"}
TrimmedPaths == {"customerName", "customerPhone"}

\* Lines 319-344: the checks made before the booking is read.
ValidateUpdate(r) ==
  IF ~ObjectIdIsValid(r.id) THEN "InvalidId"
  ELSE IF Has(r.body, "status") /\ r.body.status # "" /\ r.body.status \notin StatusEnum
  THEN "InvalidStatus"
  ELSE IF Has(r.body, "numberOfGuests") /\ r.body.numberOfGuests < 1 THEN "GuestCount"
  ELSE "ok"

\* A comparison that never finds the guest count changed.
GuestsNeverChanged(body, doc) == FALSE

\* Line 356: updates.numberOfGuests && updates.numberOfGuests !== booking.numberOfGuests
GuestsChanged(body, doc) ==
  Has(body, "numberOfGuests") /\ body.numberOfGuests # 0
    /\ body.numberOfGuests # doc.numberOfGuests

\* The update as the schema casts it: the paths of the schema only, dates
\* read from their strings, the two customer strings trimmed (lines 368-369).
CastUpdate(body, doc) ==
  [f \in DOMAIN body \cap DOMAIN doc |->
     IF f \in DatePaths THEN ParseDate(body[f])
     ELSE IF f \in TrimmedPaths THEN Trim(body[f])
     ELSE body[f]]

\* A value the schema cannot cast (CastError): a string that is no date, an
\* id that is no ObjectId.
CastFails(body) ==
  \/ \E f \in DatePaths \cap DOMAIN body : body[f].s = "bad"
  \/ Has(body, "roomTypeId") /\ ~ObjectIdIsValid(body.roomTypeId)

\* runValidators: the validators of the paths the update sets.
UpdateValid(body, set) ==
  /\ \A f \in DatePaths \cap DOMAIN body : body[f].s # "empty"
  /\ Has(set, "customerName") => set.customerName # <<>>
  /\ Has(set, "customerPhone") => set.customerPhone # <<>> /\ PhoneValid(set.customerPhone)
  /\ Has(set, "numberOfGuests") => set.numberOfGuests >= 1
  /\ Has(set, "status") => set.status \in StatusEnum

\* $set
ApplySet(doc, set) == [f \in DOMAIN doc |-> IF f \in DOMAIN set THEN set[f] ELSE doc[f]]

\* Lines 316-365: the checks, Booking.findById, and whether the guest count changes.
UpdateBookingFind(p, r) ==
  /\ Free(p)
  /\ UNCHANGED <<roomTypes, bookings, today>>
  /\ LET v == ValidateUpdate(r)
         doc == FindBookingById(bookings, r.id)
     IN  IF v # "ok" THEN Respond(p, r, Resp(400, v))
         ELSE IF ~BookingExists(bookings, r.id) THEN Respond(p, r, Resp(404, "NotFoundError"))
         ELSE IF GuestsChanged(r.body, doc)
         THEN Goto(p, r, "ub_room", [NoLoc EXCEPT !.doc = doc])
         ELSE Goto(p, r, "ub_write", NoLoc)

\* Lines 357-365: RoomType.findById(booking.roomTypeId) and the capacity check.
UpdateBookingFindRoom(p) ==
  /\ pc[p] = "ub_room"
  /\ UNCHANGED <<roomTypes, bookings, today>>
  /\ LET rt == FindRoomTypeById(roomTypes, loc[p].doc.roomTypeId)
     IN  IF rt.exists /\ CapacityExceeded(req[p].body.numberOfGuests, rt)
         THEN Respond(p, req[p], Resp(400, "CapacityError"))
         ELSE Goto(p, req[p], "ub_write", NoLoc)

\* Lines 367-404: Booking.findByIdAndUpdate(id, updates, {runValidators}).
UpdateBookingWrite(p) ==
  /\ pc[p] = "ub_write"
  /\ UNCHANGED <<roomTypes, today>>
  /\ LET id == req[p].id
         set == CastUpdate(req[p].body, bookings[id])
     IN  IF CastFails(req[p].body)
         THEN UNCHANGED bookings /\ Respond(p, req[p], Resp(500, "CastError"))
         ELSE IF ~UpdateValid(req[p].body, set)
         THEN UNCHANGED bookings /\ Respond(p, req[p], Resp(400, "ValidationError"))
         ELSE /\ bookings' = [bookings EXCEPT ![id] = ApplySet(@, set)]
              /\ Respond(p, req[p], [Resp(200, "Updated") EXCEPT !.id = id])

\* --------------------------------------------------- searchAvailableRooms
\* The guests parameter is a string of the query: empty, no number, or a number.
EmptyGuests == [s |-> "empty", n |-> 0]
BadGuests == [s |-> "bad", n |-> 0]
GuestStr(n) == [s |-> "num", n |-> n]

\* parseInt(guests, 10)
ParseInt(g) == IF g.s = "num" THEN g.n ELSE NaN

\* The checks of the query without the one on a past check-in.
ValidateSearchNoPast(q, td) ==
  IF q.checkIn.s = "empty" \/ q.checkOut.s = "empty" \/ q.guests.s = "empty"
  THEN "MissingField"
  ELSE IF IsNaN(ParseDate(q.checkIn)) \/ IsNaN(ParseDate(q.checkOut)) THEN "InvalidDate"
  ELSE IF IsNaN(ParseInt(q.guests)) \/ ParseInt(q.guests) < 1 THEN "GuestCount"
  ELSE IF ParseDate(q.checkOut) <= ParseDate(q.checkIn) THEN "DateOrder"
  ELSE "ok"

\* Lines 324-378 of the search controller.
ValidateSearch(q, td) ==
  IF q.checkIn.s = "empty" \/ q.checkOut.s = "empty" \/ q.guests.s = "empty"
  THEN "MissingField"
  ELSE IF IsNaN(ParseDate(q.checkIn)) \/ IsNaN(ParseDate(q.checkOut)) THEN "InvalidDate"
  ELSE IF IsNaN(ParseInt(q.guests)) \/ ParseInt(q.guests) < 1 THEN "GuestCount"
  ELSE IF ParseDate(q.checkOut) <= ParseDate(q.checkIn) THEN "DateOrder"
  ELSE IF ParseDate(q.checkIn) < td THEN "PastDate"
  ELSE "ok"

\* A selection that leaves out the room types that are not active.
RECURSIVE FindSuitableActive(_, _, _)
FindSuitableActive(rts, n, id) ==
  IF id > MaxRoomTypes THEN <<>>
  ELSE (IF rts[id].exists /\ rts[id].isActive /\ rts[id].maxOccupancy >= n
        THEN <<[id |-> id, rt |-> rts[id]]>> ELSE <<>>)
       \o FindSuitableActive(rts, n, id + 1)

\* RoomType.find({maxOccupancy: {$gte: n}}): the stored room types that
\* match, in the order of the collection.
RECURSIVE FindSuitable(_, _, _)
FindSuitable(rts, n, id) ==
  IF id > MaxRoomTypes THEN <<>>
  ELSE (IF rts[id].exists /\ rts[id].maxOccupancy >= n
        THEN <<[id |-> id, rt |-> rts[id]]>> ELSE <<>>)
       \o FindSuitable(rts, n, id + 1)

\* An overlap query of the search that leaves out a booking checking out at
\* the very instant of the asked check-in.
SearchOverlapQueryHalfOpen(roomTypeId, checkInDate, checkOutDate) ==
  [roomTypeId |-> roomTypeId, status |-> "confirmed",
   or |-> << [checkInDate |-> [op |-> "$lte", v |-> checkOutDate],
              checkOutDate |-> [op |-> "$gt", v |-> checkInDate]] >>]

\* Lines 402-411: the filter of Booking.countDocuments
SearchOverlapQuery(roomTypeId, checkInDate, checkOutDate) ==
  [roomTypeId |-> roomTypeId, status |-> "confirmed",
   or |-> << [checkInDate |-> [op |-> "$lte", v |-> checkOutDate],
              checkOutDate |-> [op |-> "$gte", v |-> checkInDate]] >>]

Max(a, b) == IF a >= b THEN a ELSE b

\* Math.max(0, availableCount)
SearchAvailableCount(availableCount) == Max(0, availableCount)

NoEntry ==
  [pending |-> TRUE, id |-> 0, name |-> <<>>, maxOccupancy |-> 0, pricePerNight |-> 0,
   totalQuantity |-> 0, availableCount |-> 0, isAvailable |-> FALSE, isActive |-> FALSE,
   totalPrice |-> 0]

\* Lines 414-433: the record returned for one room type.
SearchEntry(room, overlappingBookings, checkInDate, checkOutDate) ==
  LET availableCount == room.rt.totalQuantity - overlappingBookings
  IN  [pending |-> FALSE, id |-> room.id, name |-> room.rt.name,
       maxOccupancy |-> room.rt.maxOccupancy, pricePerNight |-> room.rt.pricePerNight,
       totalQuantity |-> room.rt.totalQuantity,
       availableCount |-> SearchAvailableCount(availableCount),
       isAvailable |-> availableCount > 0, isActive |-> room.rt.isActive,
       totalPrice |-> room.rt.pricePerNight * Nights(checkInDate, checkOutDate)]

\* Line 438: const availableRoomsOnly = availableRooms
AvailableRoomsOnly(entries) == entries

\* An insertion that puts an entry before the entries of its own price.
RECURSIVE InsertBeforeEqual(_, _)
InsertBeforeEqual(e, sorted) ==
  IF sorted = <<>> THEN <<e>>
  ELSE IF e.pricePerNight <= Head(sorted).pricePerNight THEN <<e>> \o sorted
  ELSE <<Head(sorted)>> \o InsertBeforeEqual(e, Tail(sorted))

\* Line 441: Array.prototype.sort((a, b) => a.pricePerNight - b.pricePerNight),
\* a stable sort.
RECURSIVE InsertByPrice(_, _)
InsertByPrice(e, sorted) ==
  IF sorted = <<>> THEN <<e>>
  ELSE IF e.pricePerNight < Head(sorted).pricePerNight THEN <<e>> \o sorted
  ELSE <<Head(sorted)>> \o InsertByPrice(e, Tail(sorted))

RECURSIVE SortByPrice(_)
SortByPrice(entries) ==
  IF entries = <<>> THEN <<>>
  ELSE InsertByPrice(entries[Len(entries)], SortByPrice(SubSeq(entries, 1, Len(entries) - 1)))

\* Lines 322-397: the checks and RoomType.find.
SearchFind(p, q) ==
  /\ Free(p)
  /\ UNCHANGED <<roomTypes, bookings, today>>
  /\ LET v == ValidateSearch(q, today)
         rooms == FindSuitable(roomTypes, ParseInt(q.guests), 1)
     IN  IF v # "ok" THEN Respond(p, q, Resp(400, v))
         ELSE IF Len(rooms) = 0 THEN Respond(p, q, Resp(200, "Search"))
         ELSE Goto(p, q, "sr_count",
                   [NoLoc EXCEPT !.rooms = rooms, !.entries = [i \in 1..Len(rooms) |-> NoEntry]])

\* Lines 400-457: one of the Booking.countDocuments calls of Promise.all; the
\* last of them to return is followed by the sort and the answer.
SearchCount(p, i) ==
  /\ pc[p] = "sr_count"
  /\ i \in DOMAIN loc[p].entries
  /\ loc[p].entries[i].pending
  /\ UNCHANGED <<roomTypes, bookings, today>>
  /\ LET checkInDate == ParseDate(req[p].checkIn)
         checkOutDate == ParseDate(req[p].checkOut)
         room == loc[p].rooms[i]
         n == CountDocuments(bookings, SearchOverlapQuery(room.id, checkInDate, checkOutDate))
         entries == [loc[p].entries EXCEPT ![i] = SearchEntry(room, n, checkInDate, checkOutDate)]
     IN  IF \E j \in DOMAIN entries : entries[j].pending
         THEN Goto(p, req[p], "sr_count", [loc[p] EXCEPT !.entries = entries])
         ELSE Respond(p, req[p],
                      [Resp(200, "Search") EXCEPT !.data = SortByPrice(AvailableRoomsOnly(entries))])

\* ------------------------------------------------ getRoomTypeAvailability
\* Lines 474-513 of the search controller.
ValidateAvailability(q) ==
  IF ~ObjectIdIsValid(q.id) THEN "InvalidId"
  ELSE IF q.checkIn.s = "empty" \/ q.checkOut.s = "empty" THEN "MissingField"
  ELSE IF IsNaN(ParseDate(q.checkIn)) \/ IsNaN(ParseDate(q.checkOut)) THEN "InvalidDate"
  ELSE IF ParseDate(q.checkOut) <= ParseDate(q.checkIn) THEN "DateOrder"
  ELSE "ok"

\* An overlap query that leaves out a booking checking out at the very
\* instant of the asked check-in.
AvailOverlapQueryHalfOpen(roomTypeId, checkInDate, checkOutDate) ==
  [roomTypeId |-> roomTypeId, status |-> "confirmed",
   or |-> << [checkInDate |-> [op |-> "$lte", v |-> checkOutDate],
              checkOutDate |-> [op |-> "$gt", v |-> checkInDate]] >>]

\* Lines 526-535: the filter of Booking.countDocuments
AvailOverlapQuery(roomTypeId, checkInDate, checkOutDate) ==
  [roomTypeId |-> roomTypeId, status |-> "confirmed",
   or |-> << [checkInDate |-> [op |-> "$lte", v |-> checkOutDate],
              checkOutDate |-> [op |-> "$gte", v |-> checkInDate]] >>]

\* An available count without the floor at 0.
AvailableCountUnclamped(rt, overlappingBookings) == rt.totalQuantity - overlappingBookings

\* Line 537
AvailableCount(rt, overlappingBookings) == Max(0, rt.totalQuantity - overlappingBookings)

\* Lines 474-523: the checks and RoomType.findById.
AvailabilityFind(p, q) ==
  /\ Free(p)
  /\ UNCHANGED <<roomTypes, bookings, today>>
  /\ LET v == ValidateAvailability(q)
         rt == FindRoomTypeById(roomTypes, q.id)
     IN  IF v # "ok" THEN Respond(p, q, Resp(400, v))
         ELSE IF ~rt.exists THEN Respond(p, q, Resp(404, "NotFoundError"))
         ELSE Goto(p, q, "av_count", [NoLoc EXCEPT !.rt = rt])

\* Lines 525-564: Booking.countDocuments and the answer.
AvailabilityCount(p) ==
  /\ pc[p] = "av_count"
  /\ UNCHANGED <<roomTypes, bookings, today>>
  /\ LET n == CountDocuments(bookings,
                  AvailOverlapQuery(req[p].id, ParseDate(req[p].checkIn), ParseDate(req[p].checkOut)))
         availableCount == AvailableCount(loc[p].rt, n)
     IN  Respond(p, req[p],
                 [Resp(200, "Availability") EXCEPT
                    !.total = loc[p].rt.totalQuantity, !.booked = n,
                    !.avail = availableCount, !.isAvailable = availableCount > 0])

\* --------------------------------------------------------- updateRoomType
\* Lines 153-188 of the room-type controller.
ValidateRoomUpdate(r) ==
  IF ~ObjectIdIsValid(r.id) THEN "InvalidId"
  ELSE IF Has(r.body, "maxOccupancy") /\ r.body.maxOccupancy < 1 THEN "InvalidMaxOccupancy"
  ELSE IF Has(r.body, "pricePerNight") /\ r.body.pricePerNight < 0 THEN "InvalidPrice"
  ELSE IF Has(r.body, "totalQuantity") /\ r.body.totalQuantity < 1 THEN "InvalidTotalQuantity"
  ELSE "ok"

\* A collection without the unique index on name.
NoUniqueIndex(rts, name, id) == FALSE

\* The unique index on name (E11000): another stored room type has the name.
DuplicateKey(rts, name, id) ==
  \E i \in DOMAIN rts : rts[i].exists /\ rts[i].name = name /\ i # id

\* RoomType.findOne({name, _id: {$ne: id}}) finds a room type
NameTaken(rts, name, id) ==
  \E i \in DOMAIN rts : rts[i].exists /\ rts[i].name = name /\ i # id

\* Lines 206-208: the update with its name trimmed.
CastRoomUpdate(body, rt) ==
  [f \in DOMAIN body \cap (DOMAIN rt \ {"exists"}) |->
     IF f = "name" THEN Trim(body[f]) ELSE body[f]]

\* Lines 210-260: RoomType.findByIdAndUpdate(id, updates, {runValidators})
\* and the answer; the unique index on name rejects a second holder of a name.
RoomTypeWrite(p, r) ==
  LET set == CastRoomUpdate(r.body, NoRoomType)
  IN  IF Has(set, "name") /\ set.name = <<>>
      THEN UNCHANGED roomTypes /\ Respond(p, r, Resp(400, "ValidationError"))
      ELSE IF ~FindRoomTypeById(roomTypes, r.id).exists
      THEN UNCHANGED roomTypes /\ Respond(p, r, Resp(404, "NotFoundError"))
      ELSE IF Has(set, "name") /\ DuplicateKey(roomTypes, set.name, r.id)
      THEN UNCHANGED roomTypes /\ Respond(p, r, Resp(400, "ConflictError"))
      ELSE /\ roomTypes' = [roomTypes EXCEPT ![r.id] = ApplySet(@, set)]
           /\ Respond(p, r, [Resp(200, "RoomTypeUpdated") EXCEPT !.id = r.id])

\* Lines 153-204, and the write when the body names no name: the checks and,
\* for a body with a name, RoomType.findOne.
UpdateRoomTypeFind(p, r) ==
  /\ Free(p)
  /\ UNCHANGED <<bookings, today>>
  /\ LET v == ValidateRoomUpdate(r)
     IN  IF v # "ok" THEN UNCHANGED roomTypes /\ Respond(p, r, Resp(400, v))
         ELSE IF Has(r.body, "name") /\ r.body.name # <<>>
         THEN /\ UNCHANGED roomTypes
              /\ IF NameTaken(roomTypes, Trim(r.body.name), r.id)
                 THEN Respond(p, r, Resp(400, "ConflictError"))
                 ELSE Goto(p, r, "ur_write", NoLoc)
         ELSE RoomTypeWrite(p, r)

UpdateRoomTypeWrite(p) ==
  /\ pc[p] = "ur_write"
  /\ UNCHANGED <<bookings, today>>
  /\ RoomTypeWrite(p, req[p])

\* --------------------------------------------------------- createRoomType
\* Lines 74-92: the checks of the request body.
ValidateRoomCreate(r) ==
  IF \/ r.name = <<>> \/ r.description = <<>> \/ r.maxOccupancy = 0
     \/ r.pricePerNight = 0 \/ r.totalQuantity = 0
  THEN "MissingField"
  ELSE IF r.maxOccupancy < 1 \/ r.pricePerNight < 0 \/ r.totalQuantity < 1
  THEN "InvalidValues"
  ELSE "ok"

\* The ids no room type was ever stored under, and the requests about to
\* store one (the model stores at most MaxRoomTypes room types).
FreshIds(rts) == {id \in DOMAIN rts : rts[id] = NoRoomType}
Creating == {p \in Procs : pc[p] = "cr_save"}

\* Lines 104-110: new RoomType({...})
NewRoomType(r) == RoomType(Trim(r.name), r.maxOccupancy, r.pricePerNight, r.totalQuantity)

\* Lines 72-102: the checks and RoomType.findOne({name}).
CreateRoomTypeFind(p, r) ==
  /\ Free(p)
  /\ UNCHANGED <<roomTypes, bookings, today>>
  /\ LET v == ValidateRoomCreate(r)
     IN  IF v # "ok" THEN Respond(p, r, Resp(400, v))
         ELSE IF NameTaken(roomTypes, Trim(r.name), MissingId)
         THEN Respond(p, r, Resp(400, "ConflictError"))
         ELSE /\ Cardinality(FreshIds(roomTypes)) > Cardinality(Creating)
              /\ Goto(p, r, "cr_save", NoLoc)

\* Lines 104-147: roomType.save() and the answer: the schema's validators,
\* then the insert, which the unique index on name rejects for a name taken.
CreateRoomTypeSave(p) ==
  /\ pc[p] = "cr_save"
  /\ UNCHANGED <<bookings, today>>
  /\ LET doc == NewRoomType(req[p])
         id == CHOOSE i \in FreshIds(roomTypes) : \A j \in FreshIds(roomTypes) : i <= j
     IN  IF doc.name = <<>> \/ Trim(req[p].description) = <<>>
         THEN UNCHANGED roomTypes /\ Respond(p, req[p], Resp(400, "ValidationError"))
         ELSE IF DuplicateKey(roomTypes, doc.name, MissingId)
         THEN UNCHANGED roomTypes /\ Respond(p, req[p], Resp(400, "ConflictError"))
         ELSE /\ roomTypes' = [roomTypes EXCEPT ![id] = doc]
              /\ Respond(p, req[p], [Resp(201, "RoomTypeCreated") EXCEPT !.id = id])

\* --------------------------------------------------------- deleteRoomType
\* A deleted room type: findById no longer finds it, and its id is never
\* given to another room type.
Deleted(rt) == [rt EXCEPT !.exists = FALSE]

\* A deletion that cancels the bookings of the deleted room type.
BookingsCancelledOnDelete(bks, id) ==
  [i \in DOMAIN bks |->
     IF bks[i].roomTypeId = id THEN [bks[i] EXCEPT !.status = "cancelled"] ELSE bks[i]]

\* Lines 277-281: the bookings of the room type are not looked at; the
\* deletion leaves them as they are.
BookingsOnDelete(bks, id) == bks

\* Lines 264-303: the id check, RoomType.findByIdAndDelete and the answer.
DeleteRoomType(p, r) ==
  /\ Free(p)
  /\ UNCHANGED today
  /\ IF ~ObjectIdIsValid(r.id)
     THEN UNCHANGED <<roomTypes, bookings>> /\ Respond(p, r, Resp(400, "InvalidId"))
     ELSE IF ~FindRoomTypeById(roomTypes, r.id).exists
     THEN UNCHANGED <<roomTypes, bookings>> /\ Respond(p, r, Resp(404, "NotFoundError"))
     ELSE /\ roomTypes' = [roomTypes EXCEPT ![r.id] = Deleted(@)]
          /\ bookings' = BookingsOnDelete(bookings, r.id)
          /\ Respond(p, r, [Resp(200, "RoomTypeDeleted") EXCEPT !.id = r.id])

\* ------------------------------------------------------------------ inputs
Str1(a) == <<a>>
Alice == <<"A", "l">>
Bob == <<"B", "o">>
Phone1 == <<"+", "1", "1", "1", "1", "1", "1", "1", "1", "1", "1">>
Phone2 == <<"2", "2", "2", "-", "2", "2", "2", "2", "2", "2", "2">>
PhoneShort == <<"+", "1", "2", "3">>
Padded(s) == <<Space>> \o s \o <<Space>>

CreateReq(roomTypeId, customerName, customerPhone, checkInDate, checkOutDate, numberOfGuests) ==
  [op |-> "createBooking", roomTypeId |-> roomTypeId, customerName |-> customerName,
   customerPhone |-> customerPhone, checkInDate |-> checkInDate,
   checkOutDate |-> checkOutDate, numberOfGuests |-> numberOfGuests]

UpdateReq(id, body) == [op |-> "updateBooking", id |-> id, body |-> body]
CancelReq(id) == [op |-> "cancelBooking", id |-> id]
SearchReq(checkIn, checkOut, guests) ==
  [op |-> "searchAvailableRooms", checkIn |-> checkIn, checkOut |-> checkOut, guests |-> guests]
AvailabilityReq(id, checkIn, checkOut) ==
  [op |-> "getRoomTypeAvailability", id |-> id, checkIn |-> checkIn, checkOut |-> checkOut]
RoomUpdateReq(id, body) == [op |-> "updateRoomType", id |-> id, body |-> body]
DeleteReq(id) == [op |-> "deleteRoomType", id |-> id]
RoomCreateReq(name, description, maxOccupancy, pricePerNight, totalQuantity) ==
  [op |-> "createRoomType", name |-> name, description |-> description,
   maxOccupancy |-> maxOccupancy, pricePerNight |-> pricePerNight,
   totalQuantity |-> totalQuantity]

\* The calendar days of the requests; day 1 is today, day 0 yesterday.
Days == 0..MaxDay
Stays == {w \in Days \X Days : w[1] >= 1 /\ w[2] = w[1] + 1}

\* ------------------------------------------------------------------- Init
\* Two room types are in the store (created earlier through POST /api/rooms),
\* no booking is, and no request is being handled.
SeedRoomTypes ==
  [id \in RoomIds |->
     IF id = 1 THEN RoomType(Str1("D"), 2, 3, 1)
     ELSE IF id = 2 THEN RoomType(Str1("S"), 1, 2, 2)
     ELSE NoRoomType]

Init ==
  /\ roomTypes = SeedRoomTypes
  /\ bookings = <<>>
  /\ today = TicksPerDay
  /\ pc = [p \in Procs |-> "idle"]
  /\ req = [p \in Procs |-> NoReq]
  /\ loc = [p \in Procs |-> NoLoc]
  /\ resp = [p \in Procs |-> NoResp]

\* ------------------------------------------------------------------- Spec
\* One client sends its requests one after another: no two requests interleave.
FirstClient == CHOOSE p \in Procs : \A q \in Procs : p <= q

ValidCreateReqs ==
  {CreateReq(1, Alice, Phone1, YMD(w[1]), YMD(w[2]), 1) : w \in Stays} \cup
  {CreateReq(2, Alice, Phone1, YMD(d), YMD(d + 1), 1) : d \in 1..2}

CreateReqs ==
  ValidCreateReqs \cup
  {CreateReq(1, Padded(Alice), Padded(Phone1), YMD(1), YMD(2), 1),
   CreateReq(1, Alice, Phone1, YMD(1), YMD(2), 3),
   CreateReq(2, Alice, Phone1, YMD(1), YMD(2), 2),
   CreateReq(1, Alice, PhoneShort, YMD(1), YMD(2), 1),
   CreateReq(2, Str1(Space), Phone1, YMD(1), YMD(2), 1),
   CreateReq(MaxRoomTypes + 1, Alice, Phone1, YMD(1), YMD(2), 1)}

CancelReqs == {CancelReq(id) : id \in (1..MaxBookings) \cup {BadId}}

SearchReqs ==
  {SearchReq(YMD(w[1]), YMD(w[2]), GuestStr(g)) : w \in Stays, g \in 1..2} \cup
  {SearchReq(YMD(1), YMD(2), GuestStr(3)), SearchReq(YMD(0), YMD(1), GuestStr(1))}

AvailabilityReqs ==
  {AvailabilityReq(id, YMD(w[1]), YMD(w[2])) : id \in 1..2, w \in Stays} \cup
  {AvailabilityReq(MaxRoomTypes + 1, YMD(1), YMD(2))}

RoomUpdateReqs ==
  {RoomUpdateReq(2, [totalQuantity |-> 1]), RoomUpdateReq(2, [totalQuantity |-> 2]),
   RoomUpdateReq(1, [totalQuantity |-> 0]),
   RoomUpdateReq(2, [name |-> Padded(Str1("S")), maxOccupancy |-> 1]),
   RoomUpdateReq(1, [name |-> Padded(Str1("S"))])}

Next ==
  \/ \E r \in CreateReqs : CreateBookingFind(FirstClient, r)
  \/ CreateBookingCount(FirstClient)
  \/ CreateBookingSave(FirstClient)
  \/ \E r \in CancelReqs : CancelBookingFind(FirstClient, r)
  \/ CancelBookingSave(FirstClient)
  \/ \E q \in SearchReqs : SearchFind(FirstClient, q)
  \/ \E i \in 1..MaxRoomTypes : SearchCount(FirstClient, i)
  \/ \E q \in AvailabilityReqs : AvailabilityFind(FirstClient, q)
  \/ AvailabilityCount(FirstClient)
  \/ \E r \in RoomUpdateReqs : UpdateRoomTypeFind(FirstClient, r)
  \/ UpdateRoomTypeWrite(FirstClient)

Spec == Init /\ [][Next]_vars

\* --------------------------------------------------------------- SpecRace
\* NumClients clients create and cancel bookings of room type 1 at the same
\* time: the store calls of their requests interleave in any order.
RaceCreateReqs == {CreateReq(1, Alice, Phone1, YMD(d), YMD(d + 1), 1) : d \in 1..2}

NextRace ==
  \E p \in Procs :
    \/ \E r \in RaceCreateReqs : CreateBookingFind(p, r)
    \/ CreateBookingCount(p)
    \/ CreateBookingSave(p)
    \/ \E r \in CancelReqs : CancelBookingFind(p, r)
    \/ CancelBookingSave(p)

SpecRace == Init /\ [][NextRace]_vars

\* ------------------------------------------------------------- SpecUpdate
\* One client creates, updates and cancels bookings, one request after another.
UpdateBodies ==
  {[status |-> "confirmed"], [status |-> "cancelled"], [status |-> "pending"],
   [numberOfGuests |-> 2], [numberOfGuests |-> 3], [numberOfGuests |-> 0],
   [customerName |-> Padded(Alice), customerPhone |-> PhoneShort],
   [checkOutDate |-> YMD(1)], [checkInDate |-> BadDateStr], [roomTypeId |-> 2]}

UpdateReqs ==
  {UpdateReq(id, body) : id \in 1..MaxBookings, body \in UpdateBodies} \cup
  {UpdateReq(BadId, [status |-> "cancelled"])}

UpdateCreateReqs == {CreateReq(1, Alice, Phone1, YMD(1), YMD(2), 1)}

NextUpdate ==
  \/ \E r \in UpdateCreateReqs : CreateBookingFind(FirstClient, r)
  \/ CreateBookingCount(FirstClient)
  \/ CreateBookingSave(FirstClient)
  \/ \E r \in UpdateReqs : UpdateBookingFind(FirstClient, r)
  \/ UpdateBookingFindRoom(FirstClient)
  \/ UpdateBookingWrite(FirstClient)
  \/ \E r \in CancelReqs : CancelBookingFind(FirstClient, r)
  \/ CancelBookingSave(FirstClient)

SpecUpdate == Init /\ [][NextUpdate]_vars

\* ------------------------------------------------------------- SpecInputs
\* One client sends createBooking, cancelBooking and searchAvailableRooms
\* requests with every combination of well-formed and ill-formed fields, to a
\* server whose clock is in one of three time zones.
\*
\* The server's calendar day at the time of the requests.
LocalDay == 1

\* The offsets of the server's time zone from UTC, in ticks: 12 hours west,
\* none, 12 hours east.
ZoneOffsets == {0 - 1, 0, 1}

\* today.setHours(0, 0, 0, 0): the instant of the midnight that starts the
\* server's calendar day, in a zone `offset` ticks east of UTC.
LocalMidnight(day, offset) == day * TicksPerDay - offset

InitInputs ==
  /\ roomTypes = SeedRoomTypes
  /\ bookings = <<>>
  /\ today \in {LocalMidnight(LocalDay, z) : z \in ZoneOffsets}
  /\ pc = [p \in Procs |-> "idle"]
  /\ req = [p \in Procs |-> NoReq]
  /\ loc = [p \in Procs |-> NoLoc]
  /\ resp = [p \in Procs |-> NoResp]

InputCreateReqs ==
  {CreateReq(id, Alice, Phone1, ci, co, g) :
     id \in {MissingId, BadId, 1, MaxRoomTypes + 1},
     ci \in {BadDateStr, YMD(LocalDay - 1), YMD(LocalDay), DateStr(LocalDay * TicksPerDay + 1)},
     co \in {BadDateStr, YMD(LocalDay), DateStr((LocalDay + 1) * TicksPerDay + 1)},
     g \in {0 - 1, 0, 1, 3}}

InputSearchReqs ==
  {SearchReq(ci, co, g) :
     ci \in {BadDateStr, YMD(LocalDay - 1), YMD(LocalDay), DateStr(LocalDay * TicksPerDay + 1)},
     co \in {YMD(LocalDay), DateStr((LocalDay + 1) * TicksPerDay + 1)},
     g \in {BadGuests, GuestStr(1), GuestStr(3)}}

NextInputs ==
  \/ \E r \in InputCreateReqs : CreateBookingFind(FirstClient, r)
  \/ CreateBookingCount(FirstClient)
  \/ CreateBookingSave(FirstClient)
  \/ \E r \in CancelReqs : CancelBookingFind(FirstClient, r)
  \/ CancelBookingSave(FirstClient)
  \/ \E q \in InputSearchReqs : SearchFind(FirstClient, q)
  \/ \E i \in 1..MaxRoomTypes : SearchCount(FirstClient, i)

SpecInputs == InitInputs /\ [][NextInputs]_vars

\* ------------------------------------------------------------- SpecSearch
\* One client books rooms, changes the price, the quantity and the isActive
\* flag of the room types, and searches, one request after another.
SearchCreateReqs == {CreateReq(id, Alice, Phone1, YMD(1), YMD(2), 1) : id \in 1..2}

SearchRoomUpdateReqs ==
  {RoomUpdateReq(1, [pricePerNight |-> 2]), RoomUpdateReq(1, [pricePerNight |-> 1]),
   RoomUpdateReq(2, [isActive |-> FALSE]), RoomUpdateReq(2, [totalQuantity |-> 1])}

SearchOnlyReqs ==
  {SearchReq(YMD(d), YMD(d + 1), GuestStr(g)) : d \in {1, MaxDay - 1}, g \in 1..3}

NextSearch ==
  \/ \E r \in SearchCreateReqs : CreateBookingFind(FirstClient, r)
  \/ CreateBookingCount(FirstClient)
  \/ CreateBookingSave(FirstClient)
  \/ \E r \in SearchRoomUpdateReqs : UpdateRoomTypeFind(FirstClient, r)
  \/ \E q \in SearchOnlyReqs : SearchFind(FirstClient, q)
  \/ \E i \in 1..MaxRoomTypes : SearchCount(FirstClient, i)

SpecSearch == Init /\ [][NextSearch]_vars

\* ----------------------------------------------------------- SpecRoomEdit
\* One client books rooms, changes the guest count of the bookings, and
\* changes and deletes the room types, one request after another.
EditCreateReqs == {CreateReq(id, Alice, Phone1, YMD(1), YMD(2), 1) : id \in 1..2}

EditUpdateReqs ==
  {UpdateReq(id, [numberOfGuests |-> g]) : id \in 1..MaxBookings, g \in 1..3}

EditRoomUpdateReqs ==
  {RoomUpdateReq(1, [maxOccupancy |-> 1]),
   RoomUpdateReq(1, [name |-> Str1("X"), pricePerNight |-> 1])}

EditDeleteReqs == {DeleteReq(1), DeleteReq(BadId)}

NextRoomEdit ==
  \/ \E r \in EditCreateReqs : CreateBookingFind(FirstClient, r)
  \/ CreateBookingCount(FirstClient)
  \/ CreateBookingSave(FirstClient)
  \/ \E r \in EditUpdateReqs : UpdateBookingFind(FirstClient, r)
  \/ UpdateBookingFindRoom(FirstClient)
  \/ UpdateBookingWrite(FirstClient)
  \/ \E r \in EditRoomUpdateReqs : UpdateRoomTypeFind(FirstClient, r)
  \/ UpdateRoomTypeWrite(FirstClient)
  \/ \E r \in EditDeleteReqs : DeleteRoomType(FirstClient, r)

SpecRoomEdit == Init /\ [][NextRoomEdit]_vars

\* --------------------------------------------------------------- SpecRooms
\* NumClients clients create and rename room types at the same time, from
\* an empty store: the store calls of their requests interleave in any order.
InitRooms ==
  /\ roomTypes = [id \in RoomIds |-> NoRoomType]
  /\ bookings = <<>>
  /\ today = TicksPerDay
  /\ pc = [p \in Procs |-> "idle"]
  /\ req = [p \in Procs |-> NoReq]
  /\ loc = [p \in Procs |-> NoLoc]
  /\ resp = [p \in Procs |-> NoResp]

RoomNames == {Str1("D"), Padded(Str1("D")), Str1("S")}

RoomCreateReqs ==
  {RoomCreateReq(name, Str1("d"), 2, 3, 1) : name \in RoomNames} \cup
  {RoomCreateReq(Str1(Space), Str1("d"), 2, 3, 1), RoomCreateReq(Str1("D"), Str1("d"), 2, 0, 1)}

RoomRenameReqs == {RoomUpdateReq(id, [name |-> name]) : id \in RoomIds, name \in RoomNames}

NextRooms ==
  \E p \in Procs :
    \/ \E r \in RoomCreateReqs : CreateRoomTypeFind(p, r)
    \/ CreateRoomTypeSave(p)
    \/ \E r \in RoomRenameReqs : UpdateRoomTypeFind(p, r)
    \/ UpdateRoomTypeWrite(p)

SpecRooms == InitRooms /\ [][NextRooms]_vars

\* ---------------------------------------------------------------- SpecLive
\* One client sends requests of the five booking and search operations while
\* the other clients create and cancel bookings at the same time.  A handler
\* suspended at a store call goes on when the store answers, and the store
\* answers every call of the first client: its steps after the first are
\* taken under weak fairness.  Nothing is assumed of the other clients:
\* their requests may stay suspended for ever.
LiveCreateReqs ==
  {CreateReq(1, Alice, Phone1, YMD(1), YMD(2), 1), CreateReq(1, Alice, Phone1, YMD(1), YMD(2), 3)}
LiveUpdateReqs == {UpdateReq(1, [numberOfGuests |-> 2]), UpdateReq(1, [status |-> "confirmed"])}
LiveCancelReqs == {CancelReq(1)}
LiveSearchReqs == {SearchReq(YMD(1), YMD(2), GuestStr(1))}
LiveAvailabilityReqs == {AvailabilityReq(1, YMD(1), YMD(2))}

\* The createBooking requests that may still insert a booking.
CreatesUnderWay == {p \in Procs : pc[p] \in {"cb_count", "cb_save"}}

\* A client sends a createBooking request (only while the bookings it and
\* the requests under way may insert fit the model's store).
SendCreate(p) ==
  /\ Len(bookings) + Cardinality(CreatesUnderWay) < MaxBookings
  /\ \E r \in LiveCreateReqs : CreateBookingFind(p, r)

\* The first client sends a request.
Send(p) ==
  \/ SendCreate(p)
  \/ \E r \in LiveUpdateReqs : UpdateBookingFind(p, r)
  \/ \E r \in LiveCancelReqs : CancelBookingFind(p, r)
  \/ \E q \in LiveSearchReqs : SearchFind(p, q)
  \/ \E q \in LiveAvailabilityReqs : AvailabilityFind(p, q)

\* The store answers the call client p's handler is suspended at.
Continue(p) ==
  \/ CreateBookingCount(p)
  \/ CreateBookingSave(p)
  \/ UpdateBookingFindRoom(p)
  \/ UpdateBookingWrite(p)
  \/ CancelBookingSave(p)
  \/ \E i \in 1..MaxRoomTypes : SearchCount(p, i)
  \/ AvailabilityCount(p)

\* A step of another client: a createBooking or a cancelBooking.
Rival(q) ==
  \/ SendCreate(q)
  \/ CreateBookingCount(q)
  \/ CreateBookingSave(q)
  \/ \E r \in LiveCancelReqs : CancelBookingFind(q, r)
  \/ CancelBookingSave(q)

NextLive ==
  \/ Send(FirstClient)
  \/ Continue(FirstClient)
  \/ \E q \in Procs \ {FirstClient} : Rival(q)

SpecLive == Init /\ [][NextLive]_vars /\ WF_vars(Continue(FirstClient))

\* -------------------------------------------------------------- SpecSerial
\* One client creates and cancels bookings, one request after another; no
\* room type is changed.
NextSerial ==
  \/ \E r \in ValidCreateReqs : CreateBookingFind(FirstClient, r)
  \/ CreateBookingCount(FirstClient)
  \/ CreateBookingSave(FirstClient)
  \/ \E r \in CancelReqs : CancelBookingFind(FirstClient, r)
  \/ CancelBookingSave(FirstClient)

SpecSerial == Init /\ [][NextSerial]_vars

\* ================================================================== claims
\* The instants of the model's calendar.
Instants == 0..(MaxDay * TicksPerDay)

\* The confirmed bookings of room type id whose stay holds the instant t.
ConfirmedAt(id, t) ==
  {i \in DOMAIN bookings :
     /\ bookings[i].status = "confirmed" /\ bookings[i].roomTypeId = id
     /\ bookings[i].checkInDate <= t /\ t <= bookings[i].checkOutDate}

\* The confirmed bookings of room type id that overlap [checkIn, checkOut],
\* as the specification words the overlap.
ConfirmedOverlapping(bks, id, checkIn, checkOut) ==
  {i \in DOMAIN bks :
     /\ bks[i].status = "confirmed" /\ bks[i].roomTypeId = id
     /\ bks[i].checkInDate <= checkOut /\ bks[i].checkOutDate >= checkIn}

\* C1: under any interleaving of concurrent createBooking calls for one room
\* type, no instant is held by more confirmed bookings of the room type than
\* its totalQuantity (checked under SpecRace, where only createBooking and
\* cancelBooking run and totalQuantity never changes).
C1_NoOversell ==
  \A id \in RoomIds : \A t \in Instants :
    roomTypes[id].exists => Cardinality(ConfirmedAt(id, t)) <= roomTypes[id].totalQuantity

\* C4: a booking that is cancelled never becomes confirmed again, whatever
\* operation writes it.
C4_CancelledStaysCancelled ==
  [][\A i \in DOMAIN bookings :
       bookings[i].status = "cancelled" => bookings'[i].status = "cancelled"]_vars

\* C7: no operation changes the checkInDate, checkOutDate or roomTypeId of a
\* stored booking.
C7_DatesAndRoomImmutable ==
  [][\A i \in DOMAIN bookings :
       /\ bookings'[i].checkInDate = bookings[i].checkInDate
       /\ bookings'[i].checkOutDate = bookings[i].checkOutDate
       /\ bookings'[i].roomTypeId = bookings[i].roomTypeId]_vars

\* C8: in every reachable state every stored booking has its checkOutDate
\* strictly after its checkInDate.
C8_CheckOutAfterCheckIn ==
  \A i \in DOMAIN bookings : bookings[i].checkOutDate > bookings[i].checkInDate

\* ------------------------------------------------- reading a step or answer
\* The step is one of client p's handler.
StepOf(p) == <<pc[p], req[p], loc[p], resp[p]>>' # <<pc[p], req[p], loc[p], resp[p]>>

\* The step is the first of client p's handler of a request of kind op.
Starts(p, op) == Free(p) /\ StepOf(p) /\ req'[p].op = op

\* Client p holds the answer of kind `kind` to its last request.
Answered(p, kind) == pc[p] = "done" /\ resp[p].kind = kind

\* The number of confirmed bookings of room type id overlapping the stay of
\* a request with the date strings checkIn and checkOut.
Overlap(bks, id, checkIn, checkOut) ==
  Cardinality(ConfirmedOverlapping(bks, id, ParseDate(checkIn), ParseDate(checkOut)))

AtLeastZero(x) == IF x < 0 THEN 0 ELSE x

\* ---------------------------------------------------------------------- C2
\* The availability check of createBooking: the request is answered 409
\* AvailabilityError, with availableRooms 0 and bookedRooms the overlap
\* count, exactly when totalQuantity minus the overlap count is <= 0, and
\* then nothing is inserted.
C2_Check(p) ==
  (pc[p] = "cb_count" /\ pc'[p] # "cb_count") =>
    LET n == Overlap(bookings, req[p].roomTypeId, req[p].checkInDate, req[p].checkOutDate)
        free == roomTypes[req[p].roomTypeId].totalQuantity - n
    IN  /\ bookings' = bookings
        /\ (free <= 0) <=> (resp'[p].status = 409 /\ resp'[p].kind = "AvailabilityError")
        /\ (free <= 0) => pc'[p] = "done" /\ resp'[p].avail = 0 /\ resp'[p].booked = n
        /\ (free > 0) => pc'[p] = "cb_save"

\* The booking a request asks for is the last of the store.
Inserted(p) ==
  /\ Len(bookings') = Len(bookings) + 1
  /\ SubSeq(bookings', 1, Len(bookings)) = bookings
  /\ bookings'[Len(bookings')].roomTypeId = req[p].roomTypeId
  /\ bookings'[Len(bookings')].checkInDate = ParseDate(req[p].checkInDate)
  /\ bookings'[Len(bookings')].checkOutDate = ParseDate(req[p].checkOutDate)
  /\ bookings'[Len(bookings')].status = "confirmed"
  /\ resp'[p].status = 201

\* C2 as claimed: a request that passed checks 1-6 is answered
\* AvailabilityError exactly when no unit is free, and is inserted otherwise.
C2_AsClaimed ==
  [][\A p \in Procs :
       /\ C2_Check(p)
       /\ (pc[p] = "cb_save" /\ pc'[p] = "done") => Inserted(p)]_vars

\* The customer strings of a request pass the schema: the trimmed name is
\* not empty and the trimmed phone matches the phone pattern.
CustomerValid(r) ==
  /\ Trim(r.customerName) # <<>>
  /\ LET v == Trim(r.customerPhone)
         digits == IF v # <<>> /\ v[1] = "+" THEN SubSeq(v, 2, Len(v)) ELSE v
     IN  Len(digits) >= 10 /\ \A i \in DOMAIN digits : digits[i] \in PhoneChars

\* C2 (amended): a request that passed checks 1-6 is answered
\* AvailabilityError exactly when no unit is free, and nothing is inserted
\* then; otherwise the booking is inserted when its customer name and phone
\* pass the schema, and the request is answered 400 ValidationError with
\* nothing inserted when they do not.
C2_AvailabilityDecides ==
  [][\A p \in Procs :
       /\ C2_Check(p)
       /\ (pc[p] = "cb_save" /\ pc'[p] = "done") =>
            IF CustomerValid(req[p]) THEN Inserted(p)
            ELSE /\ bookings' = bookings
                 /\ resp'[p].status = 400 /\ resp'[p].kind = "ValidationError"]_vars

\* A request was answered AvailabilityError while every unit of its room
\* type was taken by a confirmed overlapping booking.
C2_Witness ==
  \E p \in Procs :
    /\ Answered(p, "AvailabilityError")
    /\ resp[p].booked = 2 /\ resp[p].total = 2 /\ resp[p].avail = 0
    /\ Len(bookings) = 2

\* ---------------------------------------------------------------------- C3
\* C3: the overlap count behind every answer of createBooking,
\* searchAvailableRooms and getRoomTypeAvailability is the number of stored
\* bookings that are confirmed, of the asked room type, with checkInDate <=
\* the asked checkOut and checkOutDate >= the asked checkIn (one client, so
\* the store is the one the answer was computed from).
C3_OverlapCount ==
  \A p \in Procs :
    /\ Answered(p, "Availability") =>
         resp[p].booked = Overlap(bookings, req[p].id, req[p].checkIn, req[p].checkOut)
    /\ Answered(p, "AvailabilityError") =>
         resp[p].booked =
           Overlap(bookings, req[p].roomTypeId, req[p].checkInDate, req[p].checkOutDate)
    /\ Answered(p, "Created") =>
         Cardinality(ConfirmedOverlapping(bookings, req[p].roomTypeId,
                                          ParseDate(req[p].checkInDate),
                                          ParseDate(req[p].checkOutDate)) \ {resp[p].id})
           < roomTypes[req[p].roomTypeId].totalQuantity
    /\ Answered(p, "Search") =>
         \A k \in DOMAIN resp[p].data :
           resp[p].data[k].isAvailable =
             (Overlap(bookings, resp[p].data[k].id, req[p].checkIn, req[p].checkOut)
                < resp[p].data[k].totalQuantity)

\* An availability answer counted one booking: a confirmed booking of the
\* room type that checks out at the very instant the asked stay checks in;
\* and a booking whose dates overlap the asked stay was not counted, being
\* cancelled or of another room type.
C3_Witness ==
  \E p \in Procs :
    /\ Answered(p, "Availability")
    /\ resp[p].booked = 1
    /\ \E i \in DOMAIN bookings :
         /\ bookings[i].status = "confirmed" /\ bookings[i].roomTypeId = req[p].id
         /\ bookings[i].checkOutDate = ParseDate(req[p].checkIn)
    /\ \E j \in DOMAIN bookings :
         /\ bookings[j].status = "cancelled" \/ bookings[j].roomTypeId # req[p].id
         /\ bookings[j].checkInDate <= ParseDate(req[p].checkOut)
         /\ bookings[j].checkOutDate >= ParseDate(req[p].checkIn)

\* ---------------------------------------------------------------------- C5
\* C5: cancelBooking of a booking that is already cancelled is answered 400
\* AlreadyCancelledError and leaves the store unchanged; and a cancelBooking
\* that succeeds leaves the booking cancelled with every other field as it
\* was, so that the next cancelBooking of it is the one refused.
C5_CancelTwice ==
  [][\A p \in Procs :
       /\ ( /\ Starts(p, "cancelBooking")
            /\ BookingExists(bookings, req'[p].id)
            /\ bookings[req'[p].id].status = "cancelled" )
          => /\ pc'[p] = "done"
             /\ resp'[p].status = 400 /\ resp'[p].kind = "AlreadyCancelledError"
             /\ bookings' = bookings
       /\ (pc[p] = "cn_save" /\ pc'[p] = "done" /\ resp'[p].status = 200)
          => /\ bookings'[req[p].id].status = "cancelled"
             /\ bookings' = [bookings EXCEPT ![req[p].id].status = "cancelled"]]_vars

\* A cancelBooking was answered AlreadyCancelledError for a booking that an
\* earlier cancelBooking cancelled.
C5_Witness ==
  \E p \in Procs :
    /\ Answered(p, "AlreadyCancelledError")
    /\ req[p].op = "cancelBooking"
    /\ bookings[req[p].id].status = "cancelled"

\* ---------------------------------------------------------------------- C6
\* A request createBooking accepts whenever a unit is free: it passes the
\* request checks, its room type exists and holds its guests, and its
\* customer strings pass the schema.
Acceptable(r, rts, td) ==
  /\ ValidateCreate(r, td) = "ok"
  /\ FindRoomTypeById(rts, r.roomTypeId).exists
  /\ r.numberOfGuests <= FindRoomTypeById(rts, r.roomTypeId).maxOccupancy
  /\ CustomerValid(r)

\* C6: when a cancelBooking succeeds on one of exactly totalQuantity
\* confirmed bookings overlapping a stay, an acceptable createBooking for
\* that stay is refused with AvailabilityError before the cancellation and
\* succeeds after it, and the availableCount of the stay, as reported by
\* getRoomTypeAvailability and by searchAvailableRooms, grows by exactly 1.
C6_CancelFreesOneUnit ==
  [][\A p \in Procs :
       (pc[p] = "cn_save" /\ pc'[p] = "done" /\ resp'[p].status = 200) =>
         \A r \in CreateReqs :
           LET id == r.roomTypeId
               ci == ParseDate(r.checkInDate)
               co == ParseDate(r.checkOutDate)
           IN  ( /\ Acceptable(r, roomTypes, today)
                 /\ req[p].id \in ConfirmedOverlapping(bookings, id, ci, co)
                 /\ Cardinality(ConfirmedOverlapping(bookings, id, ci, co))
                      = roomTypes[id].totalQuantity )
               => /\ CreateDecision(r, roomTypes, bookings, today) = "AvailabilityError"
                  /\ CreateDecision(r, roomTypes', bookings', today') = "Created"
                  /\ AvailableCount(roomTypes'[id],
                        CountDocuments(bookings', AvailOverlapQuery(id, ci, co)))
                       = AvailableCount(roomTypes[id],
                           CountDocuments(bookings, AvailOverlapQuery(id, ci, co))) + 1
                  /\ SearchAvailableCount(roomTypes'[id].totalQuantity
                        - CountDocuments(bookings', SearchOverlapQuery(id, ci, co)))
                       = SearchAvailableCount(roomTypes[id].totalQuantity
                           - CountDocuments(bookings, SearchOverlapQuery(id, ci, co))) + 1]_vars

\* A createBooking succeeded for a stay that a cancelled booking of the same
\* room type overlaps, and the room type is full for that stay again.
C6_Witness ==
  \E p \in Procs :
    /\ Answered(p, "Created")
    /\ LET b == bookings[resp[p].id]
       IN  /\ \E i \in DOMAIN bookings :
                /\ bookings[i].status = "cancelled"
                /\ bookings[i].roomTypeId = b.roomTypeId
                /\ bookings[i].checkInDate <= b.checkOutDate
                /\ bookings[i].checkOutDate >= b.checkInDate
           /\ Cardinality(ConfirmedOverlapping(bookings, b.roomTypeId,
                                                b.checkInDate, b.checkOutDate))
                = roomTypes[b.roomTypeId].totalQuantity

\* ---------------------------------------------------------------------- C9
\* C9: the availableCount answered by searchAvailableRooms and by
\* getRoomTypeAvailability is the larger of 0 and totalQuantity minus the
\* overlap count, and so is never negative, also when more confirmed
\* bookings overlap than the room type has units.
C9_AvailableCountClamped ==
  \A p \in Procs :
    /\ Answered(p, "Availability") =>
         /\ resp[p].avail >= 0
         /\ resp[p].avail =
              AtLeastZero(roomTypes[req[p].id].totalQuantity
                          - Overlap(bookings, req[p].id, req[p].checkIn, req[p].checkOut))
    /\ Answered(p, "Search") =>
         \A k \in DOMAIN resp[p].data :
           /\ resp[p].data[k].availableCount >= 0
           /\ resp[p].data[k].availableCount =
                AtLeastZero(roomTypes[resp[p].data[k].id].totalQuantity
                            - Overlap(bookings, resp[p].data[k].id,
                                      req[p].checkIn, req[p].checkOut))

\* An availability answer reported 0 available units while more confirmed
\* bookings overlapped the stay than the room type has units.
C9_Witness ==
  \E p \in Procs :
    /\ Answered(p, "Availability")
    /\ resp[p].booked > resp[p].total
    /\ resp[p].avail = 0

\* --------------------------------------------------------------------- C10
\* C10: a createBooking that passes the request checks, for a room type that
\* exists, with more guests than the room type's maxOccupancy, is answered
\* 400 CapacityError and inserts nothing, whatever the availability.
C10_CapacityBeforeAvailability ==
  [][\A p \in Procs :
       ( /\ Starts(p, "createBooking")
         /\ ValidateCreate(req'[p], today) = "ok"
         /\ FindRoomTypeById(roomTypes, req'[p].roomTypeId).exists
         /\ req'[p].numberOfGuests
              > FindRoomTypeById(roomTypes, req'[p].roomTypeId).maxOccupancy )
       => /\ pc'[p] = "done"
          /\ resp'[p].status = 400 /\ resp'[p].kind = "CapacityError"
          /\ bookings' = bookings]_vars

\* A createBooking was answered CapacityError although its room type was
\* fully booked for its stay.
C10_Witness ==
  \E p \in Procs :
    /\ Answered(p, "CapacityError")
    /\ req[p].op = "createBooking"
    /\ Overlap(bookings, req[p].roomTypeId, req[p].checkInDate, req[p].checkOutDate)
         >= roomTypes[req[p].roomTypeId].totalQuantity

\* --------------------------------------------------------------------- C11
\* The first check of createBooking that request r fails, the checks taken
\* in the order claimed, against the stores rts and bks and the midnight td;
\* zeroMissing says whether a numberOfGuests of 0 counts as a missing field.
FirstFailure(r, rts, bks, td, zeroMissing) ==
  IF \/ r.roomTypeId = MissingId \/ r.customerName = <<>> \/ r.customerPhone = <<>>
     \/ r.checkInDate.s = "empty" \/ r.checkOutDate.s = "empty"
     \/ (zeroMissing /\ r.numberOfGuests = 0)
  THEN "MissingField"
  ELSE IF r.roomTypeId < 1 THEN "InvalidId"
  ELSE IF r.checkInDate.s # "date" \/ r.checkOutDate.s # "date" THEN "InvalidDate"
  ELSE IF r.checkOutDate.t <= r.checkInDate.t THEN "DateOrder"
  ELSE IF r.checkInDate.t < td THEN "PastDate"
  ELSE IF r.numberOfGuests < 1 THEN "GuestCount"
  ELSE IF ~(r.roomTypeId \in DOMAIN rts /\ rts[r.roomTypeId].exists) THEN "NotFoundError"
  ELSE IF r.numberOfGuests > rts[r.roomTypeId].maxOccupancy THEN "CapacityError"
  ELSE IF rts[r.roomTypeId].totalQuantity
            - Cardinality(ConfirmedOverlapping(bks, r.roomTypeId,
                                               r.checkInDate.t, r.checkOutDate.t)) <= 0
  THEN "AvailabilityError"
  ELSE "ok"

\* The HTTP status of each failure.
FailureStatus(kind) ==
  CASE kind = "NotFoundError" -> 404
    [] kind = "AvailabilityError" -> 409
    [] OTHER -> 400

\* Every step of createBooking answers with the first failing check, or
\* goes on when no check up to there fails.
ReportsFirstFailure(p, zeroMissing) ==
  /\ Starts(p, "createBooking") =>
       LET k == FirstFailure(req'[p], roomTypes, bookings, today, zeroMissing)
       IN  IF k \in {"ok", "AvailabilityError"} THEN pc'[p] = "cb_count"
           ELSE /\ pc'[p] = "done"
                /\ resp'[p].kind = k /\ resp'[p].status = FailureStatus(k)
  /\ (pc[p] = "cb_count" /\ StepOf(p)) =>
       LET k == FirstFailure(req[p], roomTypes, bookings, today, zeroMissing)
       IN  IF k = "ok" THEN pc'[p] = "cb_save"
           ELSE /\ pc'[p] = "done"
                /\ resp'[p].kind = k /\ resp'[p].status = FailureStatus(k)

C12_CreateAddsOne ==
  [][\A p \in Procs :
       (pc[p] = "cb_save" /\ pc'[p] = "done" /\ resp'[p].status = 201) =>
         LET id == req[p].roomTypeId
             ci == req[p].checkInDate
             co == req[p].checkOutDate
             new == bookings'[Len(bookings')]
         IN  /\ Len(bookings') = Len(bookings) + 1
             /\ SubSeq(bookings', 1, Len(bookings)) = bookings
             /\ new.status = "confirmed"
             /\ new.roomTypeId = id
             /\ new.roomTypeName = roomTypes[id].name
             /\ new.pricePerNight = roomTypes[id].pricePerNight
             /\ new.numberOfGuests >= 1
             /\ new.numberOfGuests <= roomTypes[id].maxOccupancy
             /\ AtLeastZero(roomTypes'[id].totalQuantity - Overlap(bookings', id, ci, co))
                  = AtLeastZero(roomTypes[id].totalQuantity - Overlap(bookings, id, ci, co)) - 1]_vars

\* --------------------------------------------------------------------- C13
\* The number of days in `ticks` ticks, a started day counted whole.
CeilDays(ticks) ==
  CHOOSE n \in 0..ticks : n * TicksPerDay >= ticks /\ (n - 1) * TicksPerDay < ticks

\* C13: the booking a createBooking adds has totalPrice = pricePerNight *
\* nights, nights the number of days from checkIn to checkOut rounded up,
\* and every entry of a searchAvailableRooms answer has as totalPrice the
\* same product for the asked stay.
C13_TotalPrice ==
  [][\A p \in Procs :
       /\ (pc[p] = "cb_save" /\ pc'[p] = "done" /\ resp'[p].status = 201) =>
            LET new == bookings'[Len(bookings')]
            IN  new.totalPrice
                  = new.pricePerNight * CeilDays(new.checkOutDate - new.checkInDate)
       /\ (pc[p] = "sr_count" /\ pc'[p] = "done") =>
            \A k \in DOMAIN resp'[p].data :
              resp'[p].data[k].totalPrice
                = resp'[p].data[k].pricePerNight
                    * CeilDays(req[p].checkOut.t - req[p].checkIn.t)]_vars

\* A stay of a day and a half was booked at the price of two nights, and a
\* search for such a stay was answered with the price of two nights.
C13_Witness ==
  /\ \E i \in DOMAIN bookings :
       /\ 2 * (bookings[i].checkOutDate - bookings[i].checkInDate) = 3 * TicksPerDay
       /\ bookings[i].pricePerNight > 0
       /\ bookings[i].totalPrice = 2 * bookings[i].pricePerNight
  /\ \E p \in Procs :
       /\ Answered(p, "Search")
       /\ 2 * (req[p].checkOut.t - req[p].checkIn.t) = 3 * TicksPerDay
       /\ \E k \in DOMAIN resp[p].data :
            /\ resp[p].data[k].pricePerNight > 0
            /\ resp[p].data[k].totalPrice = 2 * resp[p].data[k].pricePerNight

\* --------------------------------------------------------------------- C17
\* The calendar day a date string names, for a string holding a date only.
DayOf(str) == str.t \div TicksPerDay
IsDateOnly(str) == str.s = "date" /\ str.t % TicksPerDay = 0

\* C17: a checkIn date before the server's calendar day is refused by
\* createBooking and by searchAvailableRooms with a 400 and nothing is
\* inserted, and a checkIn date equal to the server's calendar day is not
\* refused as being in the past (the request passing every earlier check).
C17_PastDateRejected ==
  [][\A p \in Procs :
       /\ ( /\ Starts(p, "createBooking")
            /\ IsDateOnly(req'[p].checkInDate)
            /\ FirstFailure(req'[p], roomTypes, bookings, 0, TRUE)
                 \notin {"MissingField", "InvalidId", "InvalidDate", "DateOrder"} )
          => /\ DayOf(req'[p].checkInDate) < LocalDay
                  => /\ pc'[p] = "done"
                     /\ resp'[p].status = 400 /\ resp'[p].kind = "PastDate"
                     /\ bookings' = bookings
             /\ DayOf(req'[p].checkInDate) = LocalDay => resp'[p].kind # "PastDate"
       /\ ( /\ Starts(p, "searchAvailableRooms")
            /\ IsDateOnly(req'[p].checkIn)
            /\ req'[p].checkOut.s = "date" /\ req'[p].checkOut.t > req'[p].checkIn.t
            /\ req'[p].guests.s = "num" /\ req'[p].guests.n >= 1 )
          => /\ DayOf(req'[p].checkIn) < LocalDay
                  => /\ pc'[p] = "done"
                     /\ resp'[p].status = 400 /\ resp'[p].kind = "PastDate"
                     /\ bookings' = bookings
             /\ DayOf(req'[p].checkIn) = LocalDay => resp'[p].kind # "PastDate"]_vars

\* --------------------------------------------------------------------- C14
\* The stored room types that hold n guests.
Holding(n) == {id \in RoomIds : roomTypes[id].exists /\ roomTypes[id].maxOccupancy >= n}

C15_OnlyAvailable ==
  \A p \in Procs :
    Answered(p, "Search") =>
      \A k \in DOMAIN resp[p].data :
        /\ resp[p].data[k].availableCount > 0
        /\ Overlap(bookings, resp[p].data[k].id, req[p].checkIn, req[p].checkOut)
             < roomTypes[resp[p].data[k].id].totalQuantity

\* --------------------------------------------------------------------- C16
\* C16: the entries of a searchAvailableRooms answer are in ascending order
\* of pricePerNight, and entries of one pricePerNight are in the order the
\* store selected them (the order of the collection).
C16_SortedByPrice ==
  \A p \in Procs :
    Answered(p, "Search") =>
      \A j, k \in DOMAIN resp[p].data :
        j < k =>
          /\ resp[p].data[j].pricePerNight <= resp[p].data[k].pricePerNight
          /\ resp[p].data[j].pricePerNight = resp[p].data[k].pricePerNight
               => resp[p].data[j].id < resp[p].data[k].id

\* A search answer held two room types of one price, in the order of the
\* collection.
C16_Witness ==
  \E p \in Procs :
    /\ Answered(p, "Search")
    /\ Len(resp[p].data) >= 2
    /\ resp[p].data[1].pricePerNight = resp[p].data[2].pricePerNight
    /\ resp[p].data[1].id < resp[p].data[2].id

\* --------------------------------------------------------------------- C18
\* C18: an updateBooking whose numberOfGuests differs from the booking's and
\* is greater than the maxOccupancy its room type has now (the room type
\* still stored) is answered 400 CapacityError and leaves the booking as it
\* was; an updateBooking whose numberOfGuests fits is written without any
\* count of the other bookings.
C18_GuestsAgainstCurrentCapacity ==
  [][\A p \in Procs :
       /\ ( /\ Starts(p, "updateBooking")
            /\ req'[p].id \in DOMAIN bookings
            /\ DOMAIN req'[p].body = {"numberOfGuests"}
            /\ req'[p].body.numberOfGuests >= 1
            /\ req'[p].body.numberOfGuests # bookings[req'[p].id].numberOfGuests )
          => pc'[p] = "ub_room" /\ bookings' = bookings
       /\ (pc[p] = "ub_room" /\ StepOf(p)) =>
            LET rid == bookings[req[p].id].roomTypeId
            IN  IF /\ roomTypes[rid].exists
                   /\ req[p].body.numberOfGuests > roomTypes[rid].maxOccupancy
                THEN /\ pc'[p] = "done"
                     /\ resp'[p].status = 400 /\ resp'[p].kind = "CapacityError"
                     /\ bookings' = bookings
                ELSE pc'[p] = "ub_write" /\ bookings' = bookings
       /\ ( /\ pc[p] = "ub_write" /\ StepOf(p)
            /\ DOMAIN req[p].body = {"numberOfGuests"} )
          => /\ resp'[p].status = 200
             /\ bookings' = [bookings EXCEPT
                               ![req[p].id].numberOfGuests = req[p].body.numberOfGuests]]_vars

\* An updateBooking was answered CapacityError for a guest count that the
\* room type held when the booking was made and no longer holds, an
\* updateRoomType having lowered its maxOccupancy; the booking is as it was.
C18_Witness ==
  \E p \in Procs :
    /\ Answered(p, "CapacityError")
    /\ req[p].op = "updateBooking"
    /\ LET b == bookings[req[p].id]
       IN  /\ roomTypes[b.roomTypeId].exists
           /\ req[p].body.numberOfGuests <= SeedRoomTypes[b.roomTypeId].maxOccupancy
           /\ req[p].body.numberOfGuests > roomTypes[b.roomTypeId].maxOccupancy
           /\ b.numberOfGuests # req[p].body.numberOfGuests

\* --------------------------------------------------------------------- C20
\* C20: no step of deleteRoomType or updateRoomType changes the Booking
\* store: every booking of the room type is still stored, with the
\* roomTypeName, pricePerNight, totalPrice and status it had.
C20_RoomChangesKeepBookings ==
  [][\A p \in Procs :
       (StepOf(p) /\ req'[p].op \in {"deleteRoomType", "updateRoomType"}) =>
         /\ DOMAIN bookings' = DOMAIN bookings
         /\ \A i \in DOMAIN bookings :
              /\ bookings'[i].roomTypeName = bookings[i].roomTypeName
              /\ bookings'[i].pricePerNight = bookings[i].pricePerNight
              /\ bookings'[i].totalPrice = bookings[i].totalPrice
              /\ bookings'[i].status = bookings[i].status
         /\ bookings' = bookings]_vars

\* A room type was deleted after its name and price were changed, and a
\* confirmed booking of it is stored with the name and price it was made at.
C20_Witness ==
  \E p \in Procs :
    /\ Answered(p, "RoomTypeDeleted")
    /\ ~roomTypes[req[p].id].exists
    /\ \E i \in DOMAIN bookings :
         /\ bookings[i].roomTypeId = req[p].id
         /\ bookings[i].status = "confirmed"
         /\ bookings[i].roomTypeName = SeedRoomTypes[req[p].id].name
         /\ bookings[i].roomTypeName # roomTypes[req[p].id].name
         /\ bookings[i].pricePerNight # roomTypes[req[p].id].pricePerNight

\* --------------------------------------------------------------------- C19
\* C19: in every reachable state no two stored room types have the same
\* trimmed name, whatever the interleaving of createRoomType and
\* updateRoomType calls.
C19_UniqueNames ==
  \A i, j \in RoomIds :
    (i # j /\ roomTypes[i].exists /\ roomTypes[j].exists)
      => Trim(roomTypes[i].name) # Trim(roomTypes[j].name)

\* Two requests found one name free at the same time: one has stored a room
\* type under it, the other is about to store or rename one under it.
C19_Witness ==
  \E p \in Procs : \E i \in RoomIds :
    /\ pc[p] \in {"cr_save", "ur_write"}
    /\ roomTypes[i].exists
    /\ roomTypes[i].name = Trim(IF pc[p] = "cr_save" THEN req[p].name ELSE req[p].body.name)
    /\ pc[p] = "ur_write" => req[p].id # i /\ roomTypes[req[p].id].exists

\* --------------------------------------------------------------------- C21
BookingOps == {"createBooking", "updateBooking", "cancelBooking"}

\* C21: no step of createBooking, updateBooking or cancelBooking, whatever
\* its outcome, changes the RoomType store.
C21_BookingFlowsKeepRoomTypes ==
  [][\A p \in Procs :
       (StepOf(p) /\ req'[p].op \in BookingOps) => roomTypes' = roomTypes]_vars

\* A booking was created, had its guest count changed and was cancelled,
\* another booking was created after it, and a request was refused: the room
\* types are the ones of the start.
C21_Witness ==
  /\ roomTypes = SeedRoomTypes
  /\ Len(bookings) = 2
  /\ \E i \in DOMAIN bookings :
       bookings[i].status = "cancelled" /\ bookings[i].numberOfGuests = 2
  /\ \E p \in Procs : pc[p] = "done" /\ req[p].op \in BookingOps /\ resp[p].status >= 400

\* --------------------------------------------------------------------- C22
\* Booking e is for the room type, the customer phone and the dates of d.
SameBooking(d, e) ==
  /\ d.roomTypeId = e.roomTypeId /\ d.customerPhone = e.customerPhone
  /\ d.checkInDate = e.checkInDate /\ d.checkOutDate = e.checkOutDate

\* C22: createBooking never stores a booking for the room type, the customer
\* phone and the dates of a confirmed booking already in the store.
C22_NoDuplicateBooking ==
  [][Len(bookings') > Len(bookings) =>
       \A i \in DOMAIN bookings :
         bookings[i].status = "confirmed" => ~SameBooking(bookings[i], bookings'[Len(bookings')])]_vars

\* --------------------------------------------------------------------- C23
\* The dates of a request fail input validation: one of them is missing or
\* reads as no date, the check-out is not after the check-in, or the
\* check-in is before the server's today.
DatesFail(checkIn, checkOut, td) ==
  \/ checkIn.s # "date" \/ checkOut.s # "date"
  \/ checkOut.t <= checkIn.t
  \/ checkIn.t < td

CreateInputFails(r, td) ==
  \/ r.roomTypeId <= 0 \/ r.customerName = <<>> \/ r.customerPhone = <<>>
  \/ DatesFail(r.checkInDate, r.checkOutDate, td)
  \/ r.numberOfGuests < 1

SearchInputFails(q, td) ==
  \/ DatesFail(q.checkIn, q.checkOut, td)
  \/ q.guests.s # "num" \/ q.guests.n < 1

InputErrorKinds ==
  {"MissingField", "InvalidId", "InvalidDate", "DateOrder", "PastDate", "GuestCount"}

\* The handler of p answers 400 in the very step that starts it, with an
\* answer that holds nothing of the stores, and writes nothing.
RejectedAtOnce(p) ==
  /\ pc'[p] = "done"
  /\ \E k \in InputErrorKinds : resp'[p] = Resp(400, k)
  /\ roomTypes' = roomTypes /\ bookings' = bookings

\* C23: a createBooking or searchAvailableRooms request that fails input
\* validation is answered by the handler's first step, before its first call
\* on the RoomType or Booking store: the step ends the request with a 400
\* answer that depends on the request alone and leaves both stores as they
\* are; only a request that passes goes on to the store calls.
C23_RejectedBeforeStore ==
  [][\A p \in Procs :
       StepOf(p) =>
         /\ (Free(p) /\ req'[p].op = "createBooking" /\ CreateInputFails(req'[p], today))
              => RejectedAtOnce(p)
         /\ (Free(p) /\ req'[p].op = "searchAvailableRooms" /\ SearchInputFails(req'[p], today))
              => RejectedAtOnce(p)
         /\ pc'[p] \in {"cb_count", "cb_save"} => ~CreateInputFails(req'[p], today)
         /\ pc'[p] = "sr_count" => ~SearchInputFails(req'[p], today)]_vars

\* With a booking in the store, a search for a past check-in was refused.
C23_Witness ==
  /\ Len(bookings) >= 1
  /\ \E p \in Procs :
       /\ Answered(p, "PastDate") /\ req[p].op = "searchAvailableRooms"
       /\ req[p].guests = GuestStr(1)

\* --------------------------------------------------------------------- C24
\* The fields of a createRoomType request are acceptable: a name and a
\* description that are not empty, maxOccupancy >= 1, totalQuantity >= 1
\* and pricePerNight >= 0.
RoomFieldsValid(r) ==
  /\ Trim(r.name) # <<>> /\ Trim(r.description) # <<>>
  /\ r.maxOccupancy >= 1 /\ r.totalQuantity >= 1 /\ r.pricePerNight >= 0

NameFree(name) == \A i \in RoomIds : roomTypes[i].exists => roomTypes[i].name # Trim(name)

\* C24: a createRoomType request with acceptable fields, a price of 0
\* included, whose name no stored room type has, is not refused by the
\* checks of the request, and is stored by the save that finds the name
\* still free.
C24_AcceptsValidRoomType ==
  [][\A p \in Procs :
       /\ (Starts(p, "createRoomType") /\ RoomFieldsValid(req'[p]) /\ NameFree(req'[p].name))
            => pc'[p] = "cr_save"
       /\ (pc[p] = "cr_save" /\ StepOf(p) /\ RoomFieldsValid(req[p]) /\ NameFree(req[p].name))
            => /\ resp'[p].status = 201
               /\ roomTypes'[resp'[p].id] = NewRoomType(req[p])]_vars

\* --------------------------------------------------------------------- C25
\* The handler of client p is suspended at a store call.
Busy(p) == ~Free(p)

\* Client p holds one outcome of its request: a success or one error.
Outcome(p) == pc[p] = "done" /\ resp[p].kind # "none" /\ resp[p].status >= 200

\* C25: every request of the five operations that is under way eventually
\* ends with an outcome, whatever the other clients do and however far their
\* own requests get; an ended request holds an outcome, a request under way
\* holds none yet.
C25_EveryRequestCompletes ==
  /\ [](\A p \in Procs : (pc[p] = "done" => Outcome(p)) /\ (pc[p] # "done" => resp[p] = NoResp))
  /\ Busy(FirstClient) ~> Outcome(FirstClient)

\* The first client holds the outcome of a createBooking it sent after
\* another client's cancelBooking had read its booking, and that
\* cancelBooking is still waiting for its save.
C25_Witness ==
  \E q \in Procs \ {FirstClient} :
    /\ Answered(FirstClient, "Created") /\ resp[FirstClient].id = 2
    /\ pc[q] = "cn_save" /\ req[q].id = 1

\* --------------------------------------------------------------------- C26
\* The calendar dates of the model, as instants.
Dates == {d * TicksPerDay : d \in Days}

\* The confirmed bookings of room type id whose stay holds the date d.
Holders(bks, id, d) ==
  {i \in DOMAIN bks :
     /\ bks[i].status = "confirmed" /\ bks[i].roomTypeId = id
     /\ bks[i].checkInDate <= d /\ d <= bks[i].checkOutDate}

\* C26: when createBooking and cancelBooking calls run one after another
\* and no totalQuantity changes, no calendar date is held by more confirmed
\* bookings of a room type than its totalQuantity.
C26_SerialNoOversell ==
  \A id \in RoomIds : \A d \in Dates :
    Cardinality(Holders(bookings, id, d)) <= SeedRoomTypes[id].totalQuantity

\* A request for the last unit free on its dates was refused, a booking was
\* cancelled, and a date is held by as many bookings as the room type has units.
C26_Witness ==
  /\ \E p \in Procs : Answered(p, "AvailabilityError")
  /\ \E i \in DOMAIN bookings : bookings[i].status = "cancelled"
  /\ \E id \in RoomIds : \E d \in Dates :
       Cardinality(Holders(bookings, id, d)) = SeedRoomTypes[id].totalQuantity

\* --------------------------------------------------------------------- C27
\* C27: when requests run one after another and no totalQuantity changes,
\* the bound of C26 also holds after updateBooking calls, whatever their
\* body: every step of createBooking, updateBooking and cancelBooking that
\* starts from a store within the bound ends in a store within the bound.
WithinBound(bks) ==
  \A id \in RoomIds : \A d \in Dates :
    Cardinality(Holders(bks, id, d)) <= roomTypes[id].totalQuantity

C27_UpdateKeepsBound == [][WithinBound(bookings) => WithinBound(bookings')]_vars

\* --------------------------------------------------------------------- C28
\* C28: of the cancelBooking calls on one confirmed booking that run at the
\* same time, at most one succeeds: a call is answered 200 only by the save
\* that takes the booking from confirmed to cancelled, and a call whose save
\* finds the booking cancelled by another is answered AlreadyCancelledError.
C28_OneCancelSucceeds ==
  [][\A p \in Procs :
       (pc[p] = "cn_save" /\ StepOf(p)) =>
         IF bookings[req[p].id].status = "confirmed"
         THEN resp'[p].status = 200
         ELSE resp'[p].kind = "AlreadyCancelledError"]_vars

\* --------------------------------------------------------------------- C29
\* The createBooking requests for room type id and the stay checkIn to
\* checkOut with the customers of `customers` and the guest counts of `guests`.
Probes(id, checkIn, checkOut, customers, guests) ==
  {CreateReq(id, c[1], c[2], checkIn, checkOut, g) : c \in customers, g \in guests}

\* The guest counts room type id admits.
Admissible(id) == 1..roomTypes[id].maxOccupancy

\* createBooking, sent in this state, succeeds for every request of rs whose
\* stay passes validation exactly when isAvailable holds.
CreateAgrees(rs, isAvailable) ==
  \A r \in rs :
    ~CreateInputFails(r, today) =>
      ((CreateDecision(r, roomTypes, bookings, today) = "Created") <=> isAvailable)

\* The answers of getRoomTypeAvailability and searchAvailableRooms held in
\* this state (one client: they were computed from this state) agree with
\* createBooking for the customers of `customers`.
ReadsAgreeWithCreate(customers) ==
  \A p \in Procs :
    /\ Answered(p, "Availability") =>
         CreateAgrees(Probes(req[p].id, req[p].checkIn, req[p].checkOut, customers,
                             Admissible(req[p].id)),
                      resp[p].isAvailable)
    /\ Answered(p, "Search") =>
         \A k \in DOMAIN resp[p].data :
           CreateAgrees(Probes(resp[p].data[k].id, req[p].checkIn, req[p].checkOut, customers,
                               {req[p].guests.n}),
                        resp[p].data[k].isAvailable)

\* The answer that ends a createBooking is the one CreateDecision gives for
\* the state the request was sent in (one client: the stores do not change
\* while the request is handled).
CreateAnswerIsDecision ==
  \A p \in Procs :
    (StepOf(p) /\ req'[p].op = "createBooking" /\ pc'[p] = "done") =>
      resp'[p].kind = CreateDecision(req'[p], roomTypes, bookings, today)

\* C29 as claimed: whatever the customer name and phone of the request.
C29_AsClaimed ==
  []ReadsAgreeWithCreate({<<Alice, Phone1>>, <<Alice, PhoneShort>>, <<Str1(Space), Phone1>>})

\* C29 (amended): in every state, for a room type and a stay that pass
\* validation, createBooking with an admissible guest count and a customer
\* name and phone that pass the schema succeeds exactly when
\* getRoomTypeAvailability, and the entry of the room type in
\* searchAvailableRooms, report isAvailable = true in that state.
C29_CreateIffAvailable ==
  /\ []ReadsAgreeWithCreate({<<Alice, Phone1>>, <<Padded(Alice), Padded(Phone2)>>})
  /\ [][CreateAnswerIsDecision]_vars

\* getRoomTypeAvailability reported that no unit is free for a stay that
\* starts when the only confirmed booking of the room type ends.
C29_Witness ==
  \E p \in Procs :
    /\ Answered(p, "Availability") /\ ~resp[p].isAvailable
    /\ ParseDate(req[p].checkIn) >= today
    /\ \E i \in DOMAIN bookings :
         /\ bookings[i].status = "confirmed" /\ bookings[i].roomTypeId = req[p].id
         /\ bookings[i].checkOutDate = ParseDate(req[p].checkIn)

\* --------------------------------------------------------------------- C30
\* The step ends client p's request with a success: 200 or 201.
Succeeds(p) == pc'[p] = "done" /\ resp'[p].status \in {200, 201}

\* C30: a createBooking, updateBooking or cancelBooking call writes the
\* Booking store only in the step that ends it with a success: a call that
\* ends in an error has added, removed and modified no booking.
C30_ErrorsKeepBookings ==
  [][\A p \in Procs :
       (StepOf(p) /\ req'[p].op \in BookingOps /\ ~Succeeds(p)) => bookings' = bookings]_vars

\* An updateBooking of a confirmed booking was refused by the validators of
\* the write, and the booking is as createBooking stored it; an earlier
\* booking is cancelled.
C30_Witness ==
  /\ \E p \in Procs :
       /\ Answered(p, "ValidationError") /\ req[p].op = "updateBooking"
       /\ bookings[req[p].id].status = "confirmed"
       /\ bookings[req[p].id].customerPhone = Phone1
  /\ Len(bookings) = 2
  /\ bookings[1].status = "cancelled"

====
